---- MODULE Spec2Model ----
(***************************************************************************)
(* Model of the movie-stream gateway: the /api/stream, /api/download and   *)
(* /api/video request handlers of the repository's server revisions.       *)
(*                                                                         *)
(* One request is followed from its arrival to the end of the relay.  Each *)
(* action is one run of handler code between two awaits (or one stream     *)
(* event); the upstream's answers and the request's inputs are drawn from  *)
(* small sets.                                                             *)
(*                                                                         *)
(* Strings that the code parses are sequences of tokens: the decimal       *)
(* digits, "-", "x" (any character that is neither), and "bytes=" (the     *)
(* literal the range regex matches).  JavaScript numbers are records       *)
(* [nan, n], so that NaN is a value of its own.                            *)
(***************************************************************************)
EXTENDS Integers, Sequences, FiniteSets, TLC

\* ------------------------------------------------------------------ bounds
\* Largest media size (bytes) the upstream reports.
MaxFileSize == 3
\* Longest source list the upstream returns.
MaxSources == 2
\* Most body chunks one relay delivers.
MaxChunks == 2
HighWater == 1
\* Latest reading of the clock, in minutes.
MaxClock == 6
\* Most movies in one upstream search answer.
MaxListLen == 6
\* Most CPUs of the machine, and most workers the master forks in a run.
MaxCPUs == 4
MaxForks == 8

\* ------------------------------------------------------- JavaScript values
NaN == [nan |-> TRUE, n |-> 0]
JsNum(k) == [nan |-> FALSE, n |-> k]

\* a - b and a + b on JavaScript numbers: NaN is absorbing.
JsSub(a, b) == IF a.nan \/ b.nan THEN NaN ELSE JsNum(a.n - b.n)
JsAdd(a, b) == IF a.nan \/ b.nan THEN NaN ELSE JsNum(a.n + b.n)
\* a >= b: every comparison with NaN is false.
JsGe(a, b) == ~a.nan /\ ~b.nan /\ a.n >= b.n

Digits == {"0", "1", "2", "3", "4", "5", "6", "7", "8", "9"}
DigitVal(c) ==
    CASE c = "0" -> 0 [] c = "1" -> 1 [] c = "2" -> 2 [] c = "3" -> 3
      [] c = "4" -> 4 [] c = "5" -> 5 [] c = "6" -> 6 [] c = "7" -> 7
      [] c = "8" -> 8 [] c = "9" -> 9

\* The value of the longest digit prefix of s, continuing from acc;
\* seen says whether a digit has been read.
RECURSIVE ParseDigits(_, _, _)
ParseDigits(s, acc, seen) ==
    IF s # <<>> /\ Head(s) \in Digits
    THEN ParseDigits(Tail(s), 10 * acc + DigitVal(Head(s)), TRUE)
    ELSE IF seen THEN JsNum(acc) ELSE NaN

\* parseInt(s, 10) on a string without sign or white space: the digits it
\* starts with, NaN when it starts with none.
ParseInt(s) == ParseDigits(s, 0, FALSE)

\* parseInt(h) of a header that may be missing: h is {} or {string};
\* parseInt(undefined) is NaN.
ParseIntHeader(h) == IF h = {} THEN NaN ELSE ParseInt(CHOOSE s \in h : TRUE)

\* s.replace(/bytes=/, ""): the first "bytes=" is removed.
RECURSIVE ReplaceBytes(_)
ReplaceBytes(s) ==
    IF s = <<>> THEN <<>>
    ELSE IF Head(s) = "bytes=" THEN Tail(s)
    ELSE <<Head(s)>> \o ReplaceBytes(Tail(s))

\* s.split("-"): the pieces between the dashes, at least one piece.
RECURSIVE SplitDash(_, _)
SplitDash(s, cur) ==
    IF s = <<>> THEN <<cur>>
    ELSE IF Head(s) = "-" THEN <<cur>> \o SplitDash(Tail(s), <<>>)
    ELSE SplitDash(Tail(s), Append(cur, Head(s)))

\* `${n}` of a non-negative integer: its decimal digits.
DigitChar(d) == CHOOSE c \in Digits : DigitVal(c) = d
RECURSIVE Decimal(_)
Decimal(k) ==
    IF k < 10 THEN <<DigitChar(k)>>
    ELSE Append(Decimal(k \div 10), DigitChar(k % 10))

\* `${x}` of a JavaScript number.
JsString(x) ==
    IF x.nan THEN <<"N", "a", "N">>
    ELSE IF x.n < 0 THEN <<"-">> \o Decimal(0 - x.n)
    ELSE Decimal(x.n)

\* array.find(source => source.quality === q): the index of the first
\* entry whose quality is q, 0 (undefined) when there is none.
RECURSIVE FindFrom(_, _, _)
FindFrom(list, q, i) ==
    IF i > Len(list) THEN 0
    ELSE IF list[i] = q THEN i
    ELSE FindFrom(list, q, i + 1)
\* A find that keeps the last match instead of the first.
RECURSIVE FindLastFrom(_, _, _)
FindLastFrom(list, q, i) ==
    IF i < 1 THEN 0
    ELSE IF list[i] = q THEN i
    ELSE FindLastFrom(list, q, i - 1)
JsFindLast(list, q) == FindLastFrom(list, q, Len(list))
JsFind(list, q) == FindFrom(list, q, 1)

\* ------------------------------------------------------- request inputs
\* Quality labels the upstream lists, and the ones a client asks for
\* ("720p" is also the default of req.query.quality).
Labels == {"480p", "720p"}
RequestQualities == {"720p", "720P", "1080p"}

\* The upstream's answers to the sources call: the quality labels of every
\* list of at most MaxSources entries, in the upstream's order.
SourceLists == UNION {[1..k -> Labels] : k \in 0..MaxSources}

\* Range header values: a start piece, optionally "-" and an end piece,
\* with or without the "bytes=" unit.  <<>> is the empty header value.
Parts == {<<>>, <<"0">>, <<"1">>, <<"2">>, <<"x">>, <<"1", "0">>, <<"2", "x">>}
RangeBodies == Parts \cup {p \o <<"-">> \o q : p \in Parts, q \in Parts}
RangeHeaders == RangeBodies \cup {<<"bytes=">> \o b : b \in RangeBodies}
\* req.headers.range: {} when the request has no Range header.
RangeInputs == {{}} \cup {{h} : h \in RangeHeaders}

\* Content-Length values of an upstream answer; {} when missing.
UpstreamLengths == {{}} \cup {{Decimal(k)} : k \in 0..MaxFileSize}
\* Content-Type values of an upstream answer; {} when missing.
UpstreamTypes == {{}, {"video/webm"}}

\* ------------------------------------------------------------- handlers
Stream000 == "part_000 GET /api/stream/:movieId"
Stream002 == "part_002 GET /api/stream/:movieId"
Stream003 == "part_003 router GET /:movieId"
Download000 == "part_000 GET /api/download/:movieId"
VideoSrv == "server.js GET /api/video/:movieId"
Stream001 == "part_001 GET /api/stream/:movieId"
Download003 == "part_003 GET /:movieId/download"
DownloadSrv == "server.js GET /api/download/:movieId"

VARIABLES
    pc,          \* where the handler is: the call it awaits, or the relay
    handler,     \* the route handler that serves the request
    hstate,      \* "idle", "running", "returned" or "rejected" (it threw)
    uncaught,    \* a stream listener threw: an uncaught exception
    quality,     \* req.query.quality
    range,       \* req.headers.range once read: {} or {header value}
    sources,     \* the list the sources call returned
    selected,    \* index of selectedSource in sources, 0 when undefined
    fileSize,    \* the handler's fileSize, start and end
    start,
    end,
    res,         \* the downstream response
    calls,       \* upstream calls issued, by kind
    up,          \* what the upstream answered to each call
    mediaRange,  \* Range header of the media GET: {} or {header value}
    timeout,     \* the timeout option of the call the handler awaits
    relay        \* the upstream media stream and the client's connection

\* The request before the current one, where a specification records it.
VARIABLE prev

VARIABLES
    cache,       \* the module's cache Map, by search query
    clock,       \* Date.now()
    search       \* the search requests in progress, by task

VARIABLE trending    \* the trending request in progress
VARIABLE auth    \* the browser client's login state
VARIABLE cluster    \* the master's workers in production cluster mode
VARIABLE player    \* the browser's tryStreamingMethods call and its video element

\* What no step of a stream or download request changes.
otherVars == <<prev, cache, clock, search, trending, auth, cluster, player>>

\* The state of the stream or download request in progress.
streamVars == <<pc, handler, hstate, uncaught, quality, range, sources,
                selected, fileSize, start, end, res, calls, up, mediaRange,
                timeout, relay>>

\* What no step of a search changes, besides the cache and the clock.
notSearch == <<streamVars, prev, trending, auth, cluster, player>>
\* What the end of a remembered request does not change.
notPrev == <<cache, clock, search, trending, auth, cluster, player>>
\* What no step of the trending request changes.
notTrending == <<streamVars, prev, cache, clock, search, auth, cluster,
    player>>
\* What no step of the browser client's authentication changes.
notAuth == <<streamVars, prev, cache, clock, search, trending, cluster,
    player>>
\* What no step of the cluster master and its workers changes.
notCluster == <<streamVars, prev, cache, clock, search, trending, auth,
    player>>
\* What no step of the browser's player changes.
notPlayer == <<streamVars, prev, cache, clock, search, trending, auth, cluster>>

vars == <<streamVars, otherVars>>

\* ------------------------------------------------------------ timeouts
\* axios waits without limit for a call that has no timeout option.
NoTimeout == 0
SourcesTimeout001 == 8000
RouterCallTimeout == 10000
FetchTimeout == 30000
DownloadTimeout == 60000

\* The timeout option of handler h's call of the given kind.
TimeoutOf(h, call) ==
    CASE call = "sources" ->
           IF h \in {Stream003, Download003} THEN RouterCallTimeout
           ELSE IF h = Stream001 THEN SourcesTimeout001
           ELSE NoTimeout
      [] call = "info" ->
           IF h = Download003 THEN RouterCallTimeout ELSE NoTimeout
      [] call = "probe" ->
           IF h = Stream003 THEN RouterCallTimeout ELSE NoTimeout
      [] call = "media" ->
           IF h = Stream002 THEN NoTimeout
           ELSE IF h \in {Download000, Download003} THEN DownloadTimeout
           ELSE FetchTimeout
      [] OTHER -> NoTimeout

\* ------------------------------------------------- the response object
NoBody == [kind |-> "none", error |-> ""]
\* A JSON body with an `error` member, a JSON body without one, a text body
\* and the relayed media bytes.
JsonError(msg) == [kind |-> "json", error |-> msg]
JsonData == [kind |-> "json", error |-> ""]
StreamBody == [kind |-> "stream", error |-> ""]

VideoMp4 == [mime |-> "video/mp4", charset |-> ""]
\* The Content-Length send() computes from the body it writes.
BodyLength == <<"length of body">>

NewResponse ==
    [statusCode |-> 200,        \* res.statusCode
     headersSent |-> FALSE,     \* the header block is fixed (res._header)
     sentStatus |-> 0,          \* the status of the header block, 0: none
     contentType |-> {},        \* headers: {} or {value}
     contentRange |-> {},
     contentLength |-> {},
     acceptRanges |-> {},
     contentDisposition |-> {},
     location |-> {},
     body |-> NoBody,
     bytes |-> 0,               \* body chunks written by the relay
     finished |-> FALSE,        \* res.end() was called
     flushed |-> FALSE]         \* the header block went to the socket

\* `bytes ${s}-${e}/${size}` and `bytes */${size}`.
ContentRangeOf(s, e, size) ==
    <<"bytes ">> \o JsString(s) \o <<"-">> \o JsString(e) \o <<"/">>
        \o JsString(size)
ContentRangeUnsatisfied(size) == <<"bytes ", "*", "/">> \o JsString(size)
\* `bytes=${s}-${e}`
RangeHeaderOf(s, e) == <<"bytes=">> \o JsString(s) \o <<"-">> \o JsString(e)

\* The header block is built from the current status and headers.
StoreHeader(r) == [r EXCEPT !.headersSent = TRUE, !.sentStatus = r.statusCode]

\* res.status(code).json(body) while the headers are not sent: json() sets
\* Content-Type only when none is set, send() sets the charset and the
\* Content-Length of the body and ends the response.
StatusJson(r, code, body) ==
    [StoreHeader([r EXCEPT !.statusCode = code]) EXCEPT
        !.contentType =
            IF r.contentType = {}
            THEN {[mime |-> "application/json", charset |-> "utf-8"]}
            ELSE {[t EXCEPT !.charset = "utf-8"] : t \in r.contentType},
        !.contentLength = {BodyLength},
        !.body = body,
        !.finished = TRUE,
        !.flushed = TRUE]

\* res.status(code) alone: what is left of res.status(code).json(body) once
\* the header block is fixed, where send() throws ERR_HTTP_HEADERS_SENT.
Status(r, code) == [r EXCEPT !.statusCode = code]

\* res.redirect(url): 302, Location, and a short body whose type follows
\* the request's Accept header.
RedirectTypes == {"text/plain", "text/html"}
Redirect(r, mime) ==
    [StoreHeader([r EXCEPT !.statusCode = 302]) EXCEPT
        !.location = {"selectedSource.download_url"},
        !.contentType = {[mime |-> mime, charset |-> "utf-8"]},
        !.contentLength = {BodyLength},
        !.body = [kind |-> "redirect", error |-> ""],
        !.finished = TRUE,
        !.flushed = TRUE]

\* res.end() without a body.
End(r) ==
    [(IF r.headersSent THEN r ELSE StoreHeader(r)) EXCEPT
        !.finished = TRUE, !.flushed = TRUE]

\* res.writeHead(code, {Content-Range, Content-Length, Accept-Ranges}).
WriteHead(r, code, cr, len) ==
    StoreHeader([r EXCEPT !.statusCode = code,
                          !.contentRange = {cr},
                          !.contentLength = {len},
                          !.acceptRanges = {"bytes"}])

\* pipe(res) writing one chunk: the first write sends the header block.
Write(r) ==
    [(IF r.headersSent THEN r ELSE StoreHeader(r)) EXCEPT
        !.body = StreamBody,
        !.bytes = r.bytes + 1,
        !.flushed = TRUE]

\* The streaming headers the stream handlers set before they read Range.
StreamingHeaders(r) ==
    [r EXCEPT !.contentType = {VideoMp4}, !.acceptRanges = {"bytes"}]

NoCalls == [sources |-> 0, probe |-> 0, media |-> 0, info |-> 0]
NoAnswers == [subscription |-> "none", sources |-> "none", info |-> "none",
              probe |-> "none", probeLength |-> {}, probeType |-> {},
              media |-> "none", mediaLength |-> {}, mediaType |-> {}]

\* The media stream: its state ("none" before the media GET resolves, then
\* "flowing", "paused", "ended", "errored" or "destroyed"), whether pipe()
\* still connects it to res, the chunks it has emitted, the chunks written
\* to res in order, how many of them the client's socket has not taken yet,
\* and the client's connection.
NoRelay == [upstream |-> "none", piped |-> FALSE, emitted |-> 0,
            written |-> <<>>, pending |-> 0, client |-> "open"]

\* No request has been recorded.
NoPrev == [set |-> FALSE, handler |-> "none", quality |-> "720p",
           range |-> {}, sources |-> <<>>, up |-> NoAnswers,
           emitted |-> 0, res |-> NewResponse, written |-> <<>>]

\* ------------------------------------------------ the metadata cache
\* The search queries that clients send, and the bodies the upstream may
\* answer a search with.
Queries == {"avengers", "batman"}
Versions == {"first", "second"}
\* response.data of the upstream answer with body v to a search for q.
SearchData(q, v) == [query |-> q, version |-> v]
NoData == [query |-> "", version |-> ""]

\* Date.now() is counted in minutes: CACHE_DURATION = 5 * 60 * 1000 ms.
CACHE_DURATION == 5

\* cache.get(`search-${q}`): {timestamp, data}, or no entry.
NoEntry == [present |-> FALSE, timestamp |-> 0, data |-> NoData]
Entry(now, d) == [present |-> TRUE, timestamp |-> now, data |-> d]

\* Search requests in progress at the same time.
SearchTasks == {"s1", "s2"}
NoSearch == [pc |-> "idle", query |-> "", status |-> 0, data |-> NoData,
             calls |-> 0, cached |-> FALSE]

\* const trendingQueries
TrendingQueries ==
    <<"avengers", "spider man", "batman", "superman", "iron man">>
\* items.slice(0, 5) of each answer, and slice(0, 20) of the shuffled list.
PerQuery == 5
MaxTrending == 20
\* The trending handler's locals before the request.
NoTrending == [pc |-> "idle", issued |-> <<>>, failed |-> {},
               allMovies |-> <<>>, status |-> 0, success |-> FALSE,
               items |-> <<>>]

\* data.data.user of the auth answers, and the token issued to a user.
Users == {"alice", "bob"}
TokenOf(u) == "token of " \o u
\* let currentUser = null, no `streamflix_token` in localStorage, no call in
\* progress.
NoAuth == [currentUser |-> "null", token |-> "none", check |-> "idle",
           login |-> "idle", register |-> "idle", menu |-> "initial",
           last |-> "none"]

\* The master before it has forked: numCPUs not read yet, no worker, no
\* `exit` event waiting for its listener.
NoCluster == [cpus |-> 0, starting |-> 0, running |-> 0, exits |-> 0,
              forks |-> 0, handled |-> 0]

\* elements.videoElement.readyState < 2
HAVE_CURRENT_DATA == 2
\* No tryStreamingMethods call yet: no attempt, no promise, no listener or
\* timer of an attempt, an empty video element.
NoPlayer == [pc |-> "idle", attempts |-> <<>>,
             promise |-> [m \in {"stream", "direct"} |-> "none"],
             why |-> [m \in {"stream", "direct"} |-> "none"],
             onError |-> {}, onLoaded |-> {}, timers |-> {},
             readyState |-> 0, loaded |-> FALSE]

\* The state outside the stream and download requests at start-up.
OtherInit ==
    /\ prev = NoPrev
    /\ cache = [q \in Queries |-> NoEntry]
    /\ clock = 0
    /\ search = [t \in SearchTasks |-> NoSearch]
    /\ trending = NoTrending
    /\ auth = NoAuth
    /\ cluster = NoCluster
    /\ player = NoPlayer

Init ==
    /\ pc = "idle"
    /\ handler = "none"
    /\ hstate = "idle"
    /\ uncaught = FALSE
    /\ quality = "720p"
    /\ range = {}
    /\ sources = <<>>
    /\ selected = 0
    /\ fileSize = NaN
    /\ start = NaN
    /\ end = NaN
    /\ res = NewResponse
    /\ calls = NoCalls
    /\ up = NoAnswers
    /\ mediaRange = {}
    /\ timeout = NoTimeout
    /\ relay = NoRelay
    /\ OtherInit

\* ------------------------------------------------------ shared steps
\* const selectedSource = sources.find(source => source.quality === quality)
\*                        || sources[0];
\* A selection that takes sources[0] to exist.
SelectSourceUnchecked(list, q) ==
    IF JsFind(list, q) # 0 THEN JsFind(list, q) ELSE 1
SelectSource(list, q) ==
    IF JsFind(list, q) # 0 THEN JsFind(list, q)
    ELSE IF Len(list) >= 1 THEN 1
    ELSE 0

\* range.replace(/bytes=/, "").split("-")
RangeParts(h) == SplitDash(ReplaceBytes(h), <<>>)
\* parseInt(parts[0], 10)
RangeStart(h) == ParseInt(RangeParts(h)[1])
\* An end that defaults to fileSize instead of fileSize - 1.
RangeEndOffByOne(h, size) ==
    IF Len(RangeParts(h)) >= 2 /\ RangeParts(h)[2] # <<>>
    THEN ParseInt(RangeParts(h)[2])
    ELSE size
\* parts[1] ? parseInt(parts[1], 10) : fileSize - 1
RangeEnd(h, size) ==
    IF Len(RangeParts(h)) >= 2 /\ RangeParts(h)[2] # <<>>
    THEN ParseInt(RangeParts(h)[2])
    ELSE JsSub(size, JsNum(1))
\* if (range): a missing header and the empty string are falsy.
Truthy(r) == r # {} /\ r # {<<>>}
\* The one element of a singleton set.
The(set) == CHOOSE x \in set : TRUE

\* A handler that empties the cache when its request arrives.
BeginClearingCache(h, q, firstPc, firstCalls) ==
    /\ cache' = [k \in Queries |-> NoEntry]
    /\ UNCHANGED <<prev, clock, search, trending, auth, cluster, player>>
    /\ pc = "idle"
    /\ pc' = firstPc
    /\ handler' = h
    /\ hstate' = "running"
    /\ quality' = q
    /\ calls' = firstCalls
    /\ range' = {}
    /\ sources' = <<>>
    /\ selected' = 0
    /\ fileSize' = NaN
    /\ start' = NaN
    /\ end' = NaN
    /\ res' = NewResponse
    /\ up' = NoAnswers
    /\ mediaRange' = {}
    /\ timeout' = TimeoutOf(h, firstPc)
    /\ relay' = NoRelay
    /\ UNCHANGED uncaught
\* A handler whose body counter goes on from the request before.
BeginStale(h, q, firstPc, firstCalls) ==
    /\ UNCHANGED otherVars
    /\ pc = "idle"
    /\ pc' = firstPc
    /\ handler' = h
    /\ hstate' = "running"
    /\ quality' = q
    /\ calls' = firstCalls
    /\ range' = {}
    /\ sources' = <<>>
    /\ selected' = 0
    /\ fileSize' = NaN
    /\ start' = NaN
    /\ end' = NaN
    /\ res' = [NewResponse EXCEPT !.bytes = prev.res.bytes]
    /\ up' = NoAnswers
    /\ mediaRange' = {}
    /\ timeout' = TimeoutOf(h, firstPc)
    /\ relay' = NoRelay
    /\ UNCHANGED uncaught
\* A request arrives: the handler runs up to its first await.
Begin(h, q, firstPc, firstCalls) ==
    /\ UNCHANGED otherVars
    /\ pc = "idle"
    /\ pc' = firstPc
    /\ handler' = h
    /\ hstate' = "running"
    /\ quality' = q
    /\ calls' = firstCalls
    /\ range' = {}
    /\ sources' = <<>>
    /\ selected' = 0
    /\ fileSize' = NaN
    /\ start' = NaN
    /\ end' = NaN
    /\ res' = NewResponse
    /\ up' = NoAnswers
    /\ mediaRange' = {}
    /\ timeout' = TimeoutOf(h, firstPc)
    /\ relay' = NoRelay
    /\ UNCHANGED uncaught

\* The handler answers with r and returns.
Respond(r) ==
    /\ res' = r
    /\ pc' = "done"
    /\ hstate' = "returned"
    /\ timeout' = NoTimeout

\* The handler's promise rejects: an exception left its catch block.
Reject(r) ==
    /\ res' = r
    /\ pc' = "done"
    /\ hstate' = "rejected"
    /\ timeout' = NoTimeout

\* An unranged media GET that is sent a second time.
IssueFullFetchTwice ==
    /\ pc' = "fetch"
    /\ calls' = [calls EXCEPT !.media = @ + 2]
    /\ mediaRange' = {}
    /\ timeout' = TimeoutOf(handler, "media")
\* The unranged media GET is issued.
IssueFullFetch ==
    /\ pc' = "fetch"
    /\ calls' = [calls EXCEPT !.media = @ + 1]
    /\ mediaRange' = {}
    /\ timeout' = TimeoutOf(handler, "media")

\* A ranged GET that asks upstream for everything from the start on.
IssueOpenEndedFetch(s, e) ==
    /\ pc' = "fetch"
    /\ calls' = [calls EXCEPT !.media = @ + 1]
    /\ mediaRange' = {<<"bytes=">> \o JsString(s) \o <<"-">>}
    /\ timeout' = TimeoutOf(handler, "media")
\* The ranged media GET is issued with `bytes=${start}-${end}`.
IssueRangedFetch(s, e) ==
    /\ pc' = "fetch"
    /\ calls' = [calls EXCEPT !.media = @ + 1]
    /\ mediaRange' = {RangeHeaderOf(s, e)}
    /\ timeout' = TimeoutOf(handler, "media")

\* The HEAD probe of the selected source's URL is issued.
IssueProbe ==
    /\ pc' = "probe"
    /\ calls' = [calls EXCEPT !.probe = @ + 1]
    /\ timeout' = TimeoutOf(handler, "probe")
    /\ UNCHANGED mediaRange

\* The media GET resolved and its stream is piped into res.
Pipe(r) == [r EXCEPT !.upstream = "flowing", !.piped = TRUE]

\* The Content-Length headers an answer to the pending media GET may carry.
\* Only the answer to an unranged GET is told apart by its Content-Length:
\* no handler reads that header of a ranged answer.
MediaLengths == IF mediaRange = {} THEN UpstreamLengths ELSE {{}}

\* ------------------------------- part_000 and part_002: /api/stream
\* part_000 answers 416 when start >= fileSize; part_002 has no such test.
ValidatesStart(h) == h = Stream000

Stream000Request ==
    \E q \in RequestQualities :
        Begin(Stream000, q, "sources", [NoCalls EXCEPT !.sources = 1])

Stream002Request ==
    \E q \in RequestQualities :
        Begin(Stream002, q, "sources", [NoCalls EXCEPT !.sources = 1])

\* The sources call settles: resolution, streaming headers, the Range test.
StreamSources(h) ==
    /\ UNCHANGED otherVars
    /\ pc = "sources" /\ handler = h
    /\ UNCHANGED <<relay, handler, uncaught, quality, fileSize, start, end>>
    /\ \/ /\ up' = [up EXCEPT !.sources = "fail"]
          /\ Respond(StatusJson(res, 500, JsonError("Streaming failed")))
          /\ UNCHANGED <<range, sources, selected, calls, mediaRange>>
       \/ /\ up' = [up EXCEPT !.sources = "unsuccessful"]
          /\ Respond(StatusJson(res, 404, JsonError("Movie not found")))
          /\ UNCHANGED <<range, sources, selected, calls, mediaRange>>
       \/ \E list \in SourceLists :
            /\ up' = [up EXCEPT !.sources = "ok"]
            /\ sources' = list
            /\ selected' = SelectSource(list, quality)
            /\ IF selected' = 0
               THEN /\ Respond(StatusJson(res, 404,
                                          JsonError("Quality not available")))
                    /\ UNCHANGED <<range, calls, mediaRange>>
               ELSE \E r \in RangeInputs :
                      /\ range' = r
                      /\ res' = StreamingHeaders(res)
                      /\ hstate' = "running"
                      /\ IF Truthy(r)
                         THEN IssueProbe
                         ELSE IssueFullFetch

Stream000Sources == StreamSources(Stream000)
Stream002Sources == StreamSources(Stream002)

\* axios.head settles: the range is parsed, 416 or writeHead(206), and the
\* ranged GET is issued.  Of the probe's headers only content-length is
\* read: the Content-Type set before the probe stays.
StreamProbe(h) ==
    /\ UNCHANGED otherVars
    /\ pc = "probe" /\ handler = h
    /\ UNCHANGED <<relay, handler, uncaught, quality, range, sources,
                   selected>>
    /\ \/ /\ up' = [up EXCEPT !.probe = "fail"]
          /\ Respond(StatusJson(res, 500, JsonError("Streaming failed")))
          /\ UNCHANGED <<fileSize, start, end, calls, mediaRange>>
       \/ \E len \in UpstreamLengths, type \in UpstreamTypes :
            /\ up' = [up EXCEPT !.probe = "ok", !.probeLength = len,
                                !.probeType = type]
            /\ fileSize' = ParseIntHeader(len)
            /\ start' = RangeStart(The(range))
            /\ end' = RangeEnd(The(range), fileSize')
            /\ IF ValidatesStart(h) /\ JsGe(start', fileSize')
               THEN /\ Respond(End([Status(res, 416) EXCEPT
                        !.contentRange = {ContentRangeUnsatisfied(fileSize')}]))
                    /\ UNCHANGED <<calls, mediaRange>>
               ELSE /\ res' = WriteHead(res, 206,
                                 ContentRangeOf(start', end', fileSize'),
                                 JsString(JsAdd(JsSub(end', start'), JsNum(1))))
                    /\ hstate' = "running"
                    /\ IssueRangedFetch(start', end')

Stream000Probe == StreamProbe(Stream000)
Stream002Probe == StreamProbe(Stream002)

\* The media GET settles: pipe(res), or the catch block.  After writeHead
\* the catch block's json() throws and the handler's promise rejects.
StreamFetch(h) ==
    /\ UNCHANGED otherVars
    /\ pc = "fetch" /\ handler = h
    /\ UNCHANGED <<handler, uncaught, quality, range, sources, selected,
                   fileSize, start, end, calls, mediaRange>>
    /\ \/ \E len \in MediaLengths :
            /\ up' = [up EXCEPT !.media = "ok", !.mediaLength = len]
            /\ pc' = "relay"
            /\ hstate' = "returned"
            /\ timeout' = NoTimeout
            /\ relay' = Pipe(relay)
            /\ UNCHANGED res
       \/ /\ up' = [up EXCEPT !.media = "fail"]
          /\ UNCHANGED relay
          /\ IF res.headersSent
             THEN Reject(Status(res, 500))
             ELSE Respond(StatusJson(res, 500, JsonError("Streaming failed")))

Stream000Fetch == StreamFetch(Stream000)
Stream002Fetch == StreamFetch(Stream002)

\* ----------------------------------- part_003: the streaming router
Stream003Request ==
    \E q \in RequestQualities : Begin(Stream003, q, "subscription", NoCalls)

\* A check that lets the request through when the lookup throws.
CheckUnlessInactive(answer) == answer # "inactive"
\* checkUserSubscription: false when the user has no active subscription
\* and when the lookup throws.
CheckUserSubscription(answer) == answer = "active"

\* The subscription check settles: 403, or getMovieSources is called.
Stream003Subscription ==
    /\ UNCHANGED otherVars
    /\ pc = "subscription" /\ handler = Stream003
    /\ UNCHANGED <<relay, handler, uncaught, quality, range, sources,
                   selected, fileSize, start, end, mediaRange>>
    /\ \E answer \in {"active", "inactive", "error"} :
         /\ up' = [up EXCEPT !.subscription = answer]
         /\ IF CheckUserSubscription(answer)
            THEN /\ pc' = "sources"
                 /\ calls' = [calls EXCEPT !.sources = @ + 1]
                 /\ timeout' = TimeoutOf(Stream003, "sources")
                 /\ UNCHANGED <<res, hstate>>
            ELSE /\ Respond(StatusJson(res, 403,
                       JsonError("Subscription required for streaming")))
                 /\ UNCHANGED calls

\* getMovieSources: the results of a successful answer, [] when the answer
\* reports no success and [] when the call throws.
GetMovieSources(answer, list) == IF answer = "ok" THEN list ELSE <<>>

\* getMovieSources settles: resolution, streaming headers, the Range test.
Stream003Sources ==
    /\ UNCHANGED otherVars
    /\ pc = "sources" /\ handler = Stream003
    /\ UNCHANGED <<relay, handler, uncaught, quality, fileSize, start, end>>
    /\ \E answer \in {"ok", "unsuccessful", "fail"} :
       \E list \in IF answer = "ok" THEN SourceLists ELSE {<<>>} :
         /\ up' = [up EXCEPT !.sources = answer]
         /\ sources' = GetMovieSources(answer, list)
         /\ selected' = SelectSource(sources', quality)
         /\ IF selected' = 0
            THEN /\ Respond(StatusJson(res, 404,
                       JsonError("Requested quality not available")))
                 /\ UNCHANGED <<range, calls, mediaRange>>
            ELSE \E r \in RangeInputs :
                   /\ range' = r
                   /\ res' = StreamingHeaders(res)
                   /\ hstate' = "running"
                   /\ IF Truthy(r)
                      THEN IssueProbe
                      ELSE IssueFullFetch

\* headResponse.headers['content-type'] || 'video/mp4'
ProbedType(type) ==
    IF type = {} THEN {VideoMp4}
    ELSE {[mime |-> The(type), charset |-> ""]}

\* handleAdvancedRangeRequest up to its ranged GET.  logStreamingEvent reads
\* `req`, which no scope of the router module declares: every call of it
\* throws a ReferenceError.  The router's catch block reads `userId`, which
\* is declared inside the try block: the catch block throws as well, and the
\* handler's promise rejects.
Stream003Probe ==
    /\ UNCHANGED otherVars
    /\ pc = "probe" /\ handler = Stream003
    /\ UNCHANGED <<relay, handler, uncaught, quality, range, sources,
                   selected>>
    /\ \/ /\ up' = [up EXCEPT !.probe = "fail"]
          /\ Reject(res)
          /\ UNCHANGED <<fileSize, start, end, calls, mediaRange>>
       \/ \E len \in UpstreamLengths, type \in UpstreamTypes :
            /\ up' = [up EXCEPT !.probe = "ok", !.probeLength = len,
                                !.probeType = type]
            /\ fileSize' = ParseIntHeader(len)
            /\ start' = RangeStart(The(range))
            /\ end' = RangeEnd(The(range), fileSize')
            /\ IF JsGe(start', fileSize')
               THEN /\ Reject(End([Status(res, 416) EXCEPT
                        !.contentRange = {ContentRangeUnsatisfied(fileSize')}]))
                    /\ UNCHANGED <<calls, mediaRange>>
               ELSE /\ res' = [WriteHead(res, 206,
                                 ContentRangeOf(start', end', fileSize'),
                                 JsString(JsAdd(JsSub(end', start'), JsNum(1))))
                               EXCEPT !.contentType = ProbedType(type)]
                    /\ hstate' = "running"
                    /\ IssueRangedFetch(start', end')

\* The media GET settles.  On success the listeners are attached and the
\* stream is piped; back in the router logStreamingEvent throws.  On failure
\* the inner catch block's logStreamingEvent throws before its res.status.
Stream003Fetch ==
    /\ UNCHANGED otherVars
    /\ pc = "fetch" /\ handler = Stream003
    /\ UNCHANGED <<handler, uncaught, quality, range, sources, selected,
                   fileSize, start, end, calls, mediaRange>>
    /\ \/ /\ mediaRange # {}
          /\ up' = [up EXCEPT !.media = "ok"]
          /\ pc' = "relay"
          /\ hstate' = "rejected"
          /\ timeout' = NoTimeout
          /\ relay' = Pipe(relay)
          /\ UNCHANGED res
       \/ /\ mediaRange = {}
          /\ \E len \in MediaLengths, type \in UpstreamTypes :
               /\ up' = [up EXCEPT !.media = "ok", !.mediaLength = len,
                                   !.mediaType = type]
               /\ res' = [res EXCEPT
                    !.contentLength = IF len # {} THEN len ELSE @,
                    !.contentType = IF type # {} THEN ProbedType(type) ELSE @]
          /\ pc' = "relay"
          /\ hstate' = "rejected"
          /\ timeout' = NoTimeout
          /\ relay' = Pipe(relay)
       \/ /\ up' = [up EXCEPT !.media = "fail"]
          /\ UNCHANGED relay
          /\ Reject(res)

\* ------------------------------------------- part_000: /api/download
Download000Request ==
    \E q \in RequestQualities :
        Begin(Download000, q, "sources", [NoCalls EXCEPT !.sources = 1])

\* The sources call settles: resolution, then the info call.
Download000Sources ==
    /\ UNCHANGED otherVars
    /\ pc = "sources" /\ handler = Download000
    /\ UNCHANGED <<relay, handler, uncaught, quality, range, fileSize, start,
                   end, mediaRange>>
    /\ \/ /\ up' = [up EXCEPT !.sources = "fail"]
          /\ Respond(StatusJson(res, 500, JsonError("Download failed")))
          /\ UNCHANGED <<sources, selected, calls>>
       \/ /\ up' = [up EXCEPT !.sources = "unsuccessful"]
          /\ Respond(StatusJson(res, 404, JsonError("Movie not found")))
          /\ UNCHANGED <<sources, selected, calls>>
       \/ \E list \in SourceLists :
            /\ up' = [up EXCEPT !.sources = "ok"]
            /\ sources' = list
            /\ selected' = SelectSource(list, quality)
            /\ IF selected' = 0
               THEN /\ Respond(StatusJson(res, 404,
                                          JsonError("Quality not available")))
                    /\ UNCHANGED calls
               ELSE /\ pc' = "info"
                    /\ calls' = [calls EXCEPT !.info = @ + 1]
                    /\ timeout' = TimeoutOf(Download000, "info")
                    /\ UNCHANGED <<res, hstate>>

\* The info call settles: the download headers are set, Content-Length from
\* selectedSource.size (undefined makes setHeader throw), and the media GET
\* is issued.
Download000Info ==
    /\ UNCHANGED otherVars
    /\ pc = "info" /\ handler = Download000
    /\ UNCHANGED <<relay, handler, uncaught, quality, range, sources,
                   selected, fileSize, start, end>>
    /\ \/ /\ up' = [up EXCEPT !.info = "fail"]
          /\ Respond(StatusJson(res, 500, JsonError("Download failed")))
          /\ UNCHANGED <<calls, mediaRange>>
       \/ \E size \in UpstreamLengths :
            /\ up' = [up EXCEPT !.info = "ok"]
            /\ IF size = {}
               THEN /\ Respond(StatusJson(
                         [res EXCEPT !.contentDisposition = {"attachment"},
                                     !.contentType = {VideoMp4}],
                         500, JsonError("Download failed")))
                    /\ UNCHANGED <<calls, mediaRange>>
               ELSE /\ res' = [res EXCEPT
                                 !.contentDisposition = {"attachment"},
                                 !.contentType = {VideoMp4},
                                 !.contentLength = size]
                    /\ hstate' = "running"
                    /\ IssueFullFetch

\* The media GET settles: pipe(res), or the catch block.
Download000Fetch ==
    /\ UNCHANGED otherVars
    /\ pc = "fetch" /\ handler = Download000
    /\ UNCHANGED <<handler, uncaught, quality, range, sources, selected,
                   fileSize, start, end, calls, mediaRange>>
    /\ \/ \E len \in MediaLengths :
            /\ up' = [up EXCEPT !.media = "ok", !.mediaLength = len]
            /\ pc' = "relay"
            /\ hstate' = "returned"
            /\ timeout' = NoTimeout
            /\ relay' = Pipe(relay)
            /\ UNCHANGED res
       \/ /\ up' = [up EXCEPT !.media = "fail"]
          /\ UNCHANGED relay
          /\ Respond(StatusJson(res, 500, JsonError("Download failed")))

\* ---------------------------------------------- server.js: /api/video
VideoSrvRequest ==
    \E q \in RequestQualities :
        Begin(VideoSrv, q, "sources", [NoCalls EXCEPT !.sources = 1])

\* The sources call settles: resolution, then the stream URL as JSON.
VideoSrvSources ==
    /\ UNCHANGED otherVars
    /\ pc = "sources" /\ handler = VideoSrv
    /\ UNCHANGED <<relay, handler, uncaught, quality, range, fileSize, start,
                   end, calls, mediaRange>>
    /\ \/ /\ up' = [up EXCEPT !.sources = "fail"]
          /\ Respond(StatusJson(res, 500,
                                JsonError("Failed to get video stream")))
          /\ UNCHANGED <<sources, selected>>
       \/ /\ up' = [up EXCEPT !.sources = "unsuccessful"]
          /\ Respond(StatusJson(res, 404, JsonError("Movie not found")))
          /\ UNCHANGED <<sources, selected>>
       \/ \E list \in SourceLists :
            /\ up' = [up EXCEPT !.sources = "ok"]
            /\ sources' = list
            /\ selected' = SelectSource(list, quality)
            /\ IF selected' = 0
               THEN Respond(StatusJson(res, 404,
                                       JsonError("Quality not available")))
               ELSE Respond(StatusJson(res, 200, JsonData))

\* ------------------------------------------- part_001: /api/stream
Stream001Request ==
    \E q \in RequestQualities :
        Begin(Stream001, q, "sources", [NoCalls EXCEPT !.sources = 1])

\* The sources call settles: resolution, then the unranged media GET.  The
\* handler never reads the Range header.
Stream001Sources ==
    /\ UNCHANGED otherVars
    /\ pc = "sources" /\ handler = Stream001
    /\ UNCHANGED <<relay, handler, uncaught, quality, range, fileSize, start,
                   end>>
    /\ \/ /\ up' = [up EXCEPT !.sources = "fail"]
          /\ Respond(StatusJson(res, 500, JsonError("Streaming failed")))
          /\ UNCHANGED <<sources, selected, calls, mediaRange>>
       \/ /\ up' = [up EXCEPT !.sources = "unsuccessful"]
          /\ Respond(StatusJson(res, 404, JsonError("Movie not found")))
          /\ UNCHANGED <<sources, selected, calls, mediaRange>>
       \/ \E list \in SourceLists :
            /\ up' = [up EXCEPT !.sources = "ok"]
            /\ sources' = list
            /\ selected' = SelectSource(list, quality)
            /\ IF selected' = 0
               THEN /\ Respond(StatusJson(res, 404,
                                          JsonError("Quality not available")))
                    /\ UNCHANGED <<calls, mediaRange>>
               ELSE /\ IssueFullFetch
                    /\ UNCHANGED <<res, hstate>>

\* The media GET settles: the video headers are set, the upstream
\* Content-Length is copied when the answer has one, and the stream is
\* piped; or the catch block.
Stream001Fetch ==
    /\ UNCHANGED otherVars
    /\ pc = "fetch" /\ handler = Stream001
    /\ UNCHANGED <<handler, uncaught, quality, range, sources, selected,
                   fileSize, start, end, calls, mediaRange>>
    /\ \/ \E len \in MediaLengths :
            /\ up' = [up EXCEPT !.media = "ok", !.mediaLength = len]
            /\ res' = [StreamingHeaders(res) EXCEPT
                         !.contentLength = IF len # {} THEN len ELSE @]
            /\ pc' = "relay"
            /\ hstate' = "returned"
            /\ timeout' = NoTimeout
            /\ relay' = Pipe(relay)
       \/ /\ up' = [up EXCEPT !.media = "fail"]
          /\ UNCHANGED relay
          /\ Respond(StatusJson(res, 500, JsonError("Streaming failed")))

\* ------------------------------------------- server.js: /api/download
DownloadSrvRequest ==
    \E q \in RequestQualities :
        Begin(DownloadSrv, q, "sources", [NoCalls EXCEPT !.sources = 1])

\* The sources call settles: resolution, then a redirect of the client to
\* selectedSource.download_url.
DownloadSrvSources ==
    /\ UNCHANGED otherVars
    /\ pc = "sources" /\ handler = DownloadSrv
    /\ UNCHANGED <<relay, handler, uncaught, quality, range, fileSize, start,
                   end, calls, mediaRange>>
    /\ \/ /\ up' = [up EXCEPT !.sources = "fail"]
          /\ Respond(StatusJson(res, 500, JsonError("Download failed")))
          /\ UNCHANGED <<sources, selected>>
       \/ /\ up' = [up EXCEPT !.sources = "unsuccessful"]
          /\ Respond(StatusJson(res, 404, JsonError("Movie not found")))
          /\ UNCHANGED <<sources, selected>>
       \/ \E list \in SourceLists :
            /\ up' = [up EXCEPT !.sources = "ok"]
            /\ sources' = list
            /\ selected' = SelectSource(list, quality)
            /\ IF selected' = 0
               THEN Respond(StatusJson(res, 404,
                                       JsonError("Quality not available")))
               ELSE \E mime \in RedirectTypes : Respond(Redirect(res, mime))

\* ------------------------------ part_003: the router's download route
Download003Request ==
    \E q \in RequestQualities :
        Begin(Download003, q, "sources", [NoCalls EXCEPT !.sources = 1])

\* getMovieSources settles: resolution, then getMovieInfo is called.
Download003Sources ==
    /\ UNCHANGED otherVars
    /\ pc = "sources" /\ handler = Download003
    /\ UNCHANGED <<relay, handler, uncaught, quality, range, fileSize, start,
                   end, mediaRange>>
    /\ \E answer \in {"ok", "unsuccessful", "fail"} :
       \E list \in IF answer = "ok" THEN SourceLists ELSE {<<>>} :
         /\ up' = [up EXCEPT !.sources = answer]
         /\ sources' = GetMovieSources(answer, list)
         /\ selected' = SelectSource(sources', quality)
         /\ IF selected' = 0
            THEN /\ Respond(StatusJson(res, 404,
                       JsonError("Requested quality not available")))
                 /\ UNCHANGED calls
            ELSE /\ pc' = "info"
                 /\ calls' = [calls EXCEPT !.info = @ + 1]
                 /\ timeout' = TimeoutOf(Download003, "info")
                 /\ UNCHANGED <<res, hstate>>

\* The download headers of the router: Content-Length is
\* selectedSource.size.
DownloadHeaders003(r, size) ==
    [r EXCEPT !.contentType =
                  {[mime |-> "application/octet-stream", charset |-> ""]},
              !.contentDisposition = {"attachment"},
              !.contentLength = size]

\* getMovieInfo settles (it returns null when the call fails): the download
\* headers are set (an undefined selectedSource.size makes setHeader throw)
\* and the media GET is issued.
Download003Info ==
    /\ UNCHANGED otherVars
    /\ pc = "info" /\ handler = Download003
    /\ UNCHANGED <<relay, handler, uncaught, quality, range, sources,
                   selected, fileSize, start, end>>
    /\ \E answer \in {"ok", "fail"}, size \in UpstreamLengths :
         /\ up' = [up EXCEPT !.info = answer]
         /\ IF size = {}
            THEN /\ Respond(StatusJson(DownloadHeaders003(res, {}), 500,
                                       JsonError("Download failed")))
                 /\ UNCHANGED <<calls, mediaRange>>
            ELSE /\ res' = DownloadHeaders003(res, size)
                 /\ hstate' = "running"
                 /\ IssueFullFetch

\* The media GET settles.  On success logDownloadEvent is called before the
\* stream is piped; it reads `req`, which no scope of the router module
\* declares, and throws: the catch block answers 500 and the stream is
\* neither piped nor destroyed.
Download003Fetch ==
    /\ UNCHANGED otherVars
    /\ pc = "fetch" /\ handler = Download003
    /\ UNCHANGED <<handler, uncaught, quality, range, sources, selected,
                   fileSize, start, end, calls, mediaRange>>
    /\ \/ /\ up' = [up EXCEPT !.media = "ok"]
          /\ relay' = [relay EXCEPT !.upstream = "paused"]
          /\ Respond(StatusJson(res, 500, JsonError("Download failed")))
       \/ /\ up' = [up EXCEPT !.media = "fail"]
          /\ UNCHANGED relay
          /\ Respond(StatusJson(res, 500, JsonError("Download failed")))

\* ------------------------------------------------------------ the relay
\* The handlers whose pipe is the only listener of the upstream stream.
PlainPipe == {Stream000, Stream001, Stream002, Download000}

\* pipe's 'data' listener: the chunk is written to res; when write() returns
\* false, because the response buffers HighWater chunks the client has not
\* taken, the stream is paused until 'drain'.
PipeData(r) ==
    [r EXCEPT !.emitted = @ + 1,
              !.written = Append(@, r.emitted + 1),
              !.pending = @ + 1,
              !.upstream = IF r.pending + 1 >= HighWater
                           THEN "paused" ELSE "flowing"]

\* A chunk that no write to res follows.
DropData(r) == [r EXCEPT !.emitted = @ + 1]

\* 'data': pipe writes the chunk downstream.
RelayData ==
    /\ UNCHANGED otherVars
    /\ pc = "relay" /\ handler \in PlainPipe
    /\ relay.upstream = "flowing"
    /\ relay.emitted < MaxChunks
    /\ res' = Write(res)
    /\ relay' = PipeData(relay)
    /\ UNCHANGED <<pc, handler, hstate, uncaught, quality, range, sources,
                   selected, fileSize, start, end, calls, up, mediaRange,
                   timeout>>

\* 'end': pipe ends the response.
RelayEnd ==
    /\ UNCHANGED otherVars
    /\ pc = "relay" /\ handler \in PlainPipe
    /\ relay.upstream = "flowing"
    /\ res' = End(res)
    /\ relay' = [relay EXCEPT !.upstream = "ended"]
    /\ pc' = "done"
    /\ UNCHANGED <<handler, hstate, uncaught, quality, range, sources,
                   selected, fileSize, start, end, calls, up, mediaRange,
                   timeout>>

\* 'data' in the router: the handler's own listener runs before pipe's.  In
\* handleAdvancedRangeRequest it reads `req`, which is not in scope: it
\* throws, the exception is uncaught and pipe's listener never sees the
\* chunk.  In streamFullVideo it counts the bytes and pipe, while it is
\* attached, writes the chunk.
Relay003Data ==
    /\ UNCHANGED otherVars
    /\ pc = "relay" /\ handler = Stream003
    /\ relay.upstream = "flowing"
    /\ relay.emitted < MaxChunks
    /\ IF mediaRange # {}
       THEN /\ uncaught' = TRUE
            /\ relay' = DropData(relay)
            /\ UNCHANGED res
       ELSE IF relay.piped
       THEN /\ res' = Write(res)
            /\ relay' = PipeData(relay)
            /\ UNCHANGED uncaught
       ELSE /\ relay' = DropData(relay)
            /\ UNCHANGED <<res, uncaught>>
    /\ UNCHANGED <<pc, handler, hstate, quality, range, sources, selected,
                   fileSize, start, end, calls, up, mediaRange, timeout>>

\* 'end' in the router: the handler's own listener runs before pipe's and
\* calls logStreamingEvent, which throws: pipe never ends the response.
Relay003End ==
    /\ UNCHANGED otherVars
    /\ pc = "relay" /\ handler = Stream003
    /\ relay.upstream = "flowing"
    /\ uncaught' = TRUE
    /\ relay' = [relay EXCEPT !.upstream = "ended"]
    /\ pc' = "done"
    /\ UNCHANGED <<handler, hstate, quality, range, sources, selected,
                   fileSize, start, end, res, calls, up, mediaRange,
                   timeout>>

\* The client's socket takes what the response buffered: 'drain', on which
\* pipe resumes the stream it paused.
ResponseDrain ==
    /\ UNCHANGED otherVars
    /\ pc = "relay"
    /\ relay.client = "open"
    /\ relay.pending > 0
    /\ relay' = [relay EXCEPT
                   !.pending = 0,
                   !.upstream = IF @ = "paused" /\ relay.piped
                                THEN "flowing" ELSE @]
    /\ UNCHANGED <<pc, handler, hstate, uncaught, quality, range, sources,
                   selected, fileSize, start, end, res, calls, up,
                   mediaRange, timeout>>

\* The upstream media stream emits 'error' during the relay.  No handler
\* listens for it and pipe neither forwards it nor ends res: the response
\* stays as it is.  An 'error' nobody listens for is thrown; whether the
\* HTTP client has a listener of its own on the stream depends on its
\* version.
UpstreamError ==
    /\ UNCHANGED otherVars
    /\ pc = "relay"
    /\ relay.upstream \in {"flowing", "paused"}
    /\ relay' = [relay EXCEPT !.upstream = "errored"]
    /\ \E thrown \in BOOLEAN : uncaught' = (uncaught \/ thrown)
    /\ pc' = "done"
    /\ UNCHANGED <<handler, hstate, quality, range, sources, selected,
                   fileSize, start, end, res, calls, up, mediaRange,
                   timeout>>

\* The client disconnects during the relay: res emits 'close' and pipe
\* unpipes, which pauses the stream.  No handler listens for 'close' and
\* nothing destroys the stream.  Where the handler has a 'data' listener of
\* its own and the stream was waiting for 'drain', the clean-up of pipe may
\* resume it.
ClientClose ==
    /\ UNCHANGED otherVars
    /\ pc = "relay"
    /\ relay.client = "open"
    /\ relay.upstream \in {"flowing", "paused"}
    /\ \E next \in IF handler = Stream003 /\ relay.upstream = "paused"
                   THEN {"paused", "flowing"} ELSE {"paused"} :
         relay' = [relay EXCEPT !.client = "closed", !.piped = FALSE,
                                !.upstream = next]
    /\ UNCHANGED <<pc, handler, hstate, uncaught, quality, range, sources,
                   selected, fileSize, start, end, res, calls, up,
                   mediaRange, timeout>>

\* The state of the request is dropped: nothing of it outlives the request.
Reset ==
    /\ pc' = "idle"
    /\ handler' = "none"
    /\ hstate' = "idle"
    /\ quality' = "720p"
    /\ range' = {}
    /\ sources' = <<>>
    /\ selected' = 0
    /\ fileSize' = NaN
    /\ start' = NaN
    /\ end' = NaN
    /\ res' = NewResponse
    /\ calls' = NoCalls
    /\ up' = NoAnswers
    /\ mediaRange' = {}
    /\ timeout' = NoTimeout
    /\ relay' = NoRelay
    /\ UNCHANGED uncaught

\* The request is over and the process goes on: the server waits for the
\* next request.
NextRequest ==
    /\ UNCHANGED otherVars
    /\ pc = "done" /\ hstate = "returned" /\ ~uncaught
    /\ Reset

Next ==
    \/ Stream000Request \/ Stream000Sources \/ Stream000Probe
    \/ Stream000Fetch
    \/ Stream002Request \/ Stream002Sources \/ Stream002Probe
    \/ Stream002Fetch
    \/ Stream003Request \/ Stream003Subscription \/ Stream003Sources
    \/ Stream003Probe \/ Stream003Fetch
    \/ Download000Request \/ Download000Sources \/ Download000Info
    \/ Download000Fetch
    \/ VideoSrvRequest \/ VideoSrvSources
    \/ Stream001Request \/ Stream001Sources \/ Stream001Fetch
    \/ DownloadSrvRequest \/ DownloadSrvSources
    \/ Download003Request \/ Download003Sources \/ Download003Info
    \/ Download003Fetch
    \/ RelayData \/ RelayEnd \/ Relay003Data \/ Relay003End
    \/ ResponseDrain \/ NextRequest

\* Every request, with an upstream and a client that stay connected while
\* the media is relayed.
Spec == Init /\ [][Next]_vars

\* Every request, with an upstream that may fail and a client that may
\* disconnect while the media is relayed.
NextRelay == Next \/ UpstreamError \/ ClientClose

SpecRelay == Init /\ [][NextRelay]_vars

\* ------------------------------------------- one request after another
\* Requests of part_000's stream handler for the 720p source of one item,
\* one after the other, each remembered when the next one starts.
TwiceRanges == {{}, {<<"bytes=", "0", "-">>}, {<<"bytes=", "1", "-", "2">>}}

Twice000Request == Stream000Request /\ quality' = "720p"

Twice000Sources ==
    /\ Stream000Sources
    /\ sources' \in {<<>>, <<"720p">>}
    /\ range' \in TwiceRanges

\* The request is over; it is remembered, and the server waits for the next.
Repeat ==
    /\ pc = "done" /\ hstate = "returned" /\ ~uncaught
    /\ UNCHANGED notPrev
    /\ prev' = [set |-> TRUE, handler |-> handler, quality |-> quality,
                range |-> range, sources |-> sources, up |-> up,
                emitted |-> relay.emitted, res |-> res,
                written |-> relay.written]
    /\ Reset

NextTwice ==
    \/ Twice000Request \/ Twice000Sources \/ Stream000Probe
    \/ Stream000Fetch \/ RelayData \/ RelayEnd \/ ResponseDrain \/ Repeat

SpecTwice == Init /\ [][NextTwice]_vars

\* ------------------------------------------- part_000: /api/search
\* A cache test that still serves an entry that is exactly CACHE_DURATION old.
IsFreshInclusive(e, now) ==
    e.present /\ now - e.timestamp <= CACHE_DURATION
\* cache.has(cacheKey) && Date.now() - cached.timestamp < CACHE_DURATION
IsFresh(e, now) ==
    e.present /\ now - e.timestamp < CACHE_DURATION

\* A failed search that drops the entry of its query.
FailedSearchEvicts(c, q) == [c EXCEPT ![q] = NoEntry]
\* The catch block of the search handler: the cache is not touched.
FailedSearch(c, q) == c

\* A search request arrives: served from the cache, or the upstream search
\* is called.
SearchRequest(t) ==
    /\ search[t].pc = "idle"
    /\ \E q \in Queries :
         IF IsFresh(cache[q], clock)
         THEN search' = [search EXCEPT ![t] =
                  [pc |-> "done", query |-> q, status |-> 200,
                   data |-> cache[q].data, calls |-> 0, cached |-> TRUE]]
         ELSE search' = [search EXCEPT ![t] =
                  [NoSearch EXCEPT !.pc = "await", !.query = q, !.calls = 1]]
    /\ UNCHANGED <<cache, clock, notSearch>>

\* The upstream search settles: the answer is cached and sent, or the catch
\* block answers 500.
SearchAnswer(t) ==
    /\ search[t].pc = "await"
    /\ LET q == search[t].query IN
       \/ \E v \in Versions :
            /\ cache' = [cache EXCEPT ![q] = Entry(clock, SearchData(q, v))]
            /\ search' = [search EXCEPT ![t].pc = "done", ![t].status = 200,
                                       ![t].data = SearchData(q, v)]
       \/ /\ cache' = FailedSearch(cache, q)
          /\ search' = [search EXCEPT ![t].pc = "done", ![t].status = 500]
    /\ UNCHANGED <<clock, notSearch>>

\* The search request is over.
SearchDone(t) ==
    /\ search[t].pc = "done"
    /\ search' = [search EXCEPT ![t] = NoSearch]
    /\ UNCHANGED <<cache, clock, notSearch>>

\* DELETE /api/cache: cache.clear().
ClearCache ==
    /\ cache # [q \in Queries |-> NoEntry]
    /\ cache' = [q \in Queries |-> NoEntry]
    /\ UNCHANGED <<search, clock, notSearch>>

\* Time passes: Date.now() grows.
Tick ==
    /\ clock < MaxClock
    /\ clock' = clock + 1
    /\ UNCHANGED <<cache, search, notSearch>>

NextSearch ==
    \/ \E t \in SearchTasks : SearchRequest(t)
    \/ \E t \in SearchTasks : SearchAnswer(t)
    \/ \E t \in SearchTasks : SearchDone(t)
    \/ ClearCache
    \/ Tick

SpecSearch == Init /\ [][NextSearch]_vars

\* ------------------------- part_000: streams, downloads and searches
\* The stream and download requests of part_000 while a search for one
\* query is in progress and the cache is filled and cleared.
Shared000Download == Download000Request /\ quality' = "720p"

Shared000Sources ==
    /\ Download000Sources
    /\ sources' \in {<<>>, <<"720p">>}

SharedSearchRequest == SearchRequest("s1") /\ search'["s1"].query = "avengers"

SharedSearchAnswer ==
    SearchAnswer("s1") /\ search'["s1"].data.version # "second"

NextShared ==
    \/ Twice000Request \/ Twice000Sources \/ Stream000Probe
    \/ Stream000Fetch \/ RelayData \/ RelayEnd \/ ResponseDrain \/ Repeat
    \/ Shared000Download \/ Shared000Sources \/ Download000Info
    \/ Download000Fetch \/ NextRequest
    \/ SharedSearchRequest \/ SharedSearchAnswer \/ SearchDone("s1")
    \/ ClearCache

SpecShared == Init /\ [][NextShared]_vars

\* ----------------------------------------- part_000: /api/trending
\* array.slice(0, n)
Slice(seq, n) == SubSeq(seq, 1, IF n < Len(seq) THEN n ELSE Len(seq))

\* One movie of an upstream answer: subjectId, and the query it came with.
Movie(id, i) == [subjectId |-> id, query |-> i]

\* results.items of the answers to the i-th query: movies only this query
\* finds, and movies every query finds, each listed twice.
OwnItems(i) == [k \in 1 .. MaxListLen |-> Movie(10 * i + k, i)]
SharedItems(i) == [k \in 1 .. 4 |-> Movie((k + 1) \div 2, i)]

RECURSIVE KeepAll(_, _)
RECURSIVE UniqueMovies(_, _)
\* All movies kept, duplicates too.
KeepAll(all, i) ==
    IF i > Len(all) THEN <<>> ELSE <<all[i]>> \o KeepAll(all, i + 1)
\* [...new Map(allMovies.map(movie => [movie.subjectId, movie])).values()]
\* from position i onwards: a key stays where it was first set and holds
\* the value it was last set to.
UniqueMovies(all, i) ==
    IF i > Len(all) THEN <<>>
    ELSE LET id == all[i].subjectId
             last == CHOOSE j \in i .. Len(all) :
                        /\ all[j].subjectId = id
                        /\ \A k \in (j + 1) .. Len(all) : all[k].subjectId # id
         IN  (IF \A j \in 1 .. (i - 1) : all[j].subjectId # id
              THEN <<all[last]>> ELSE <<>>) \o UniqueMovies(all, i + 1)

\* uniqueMovies.sort(() => 0.5 - Math.random()): the orders the model draws
\* from are the rotations of the list.
Shuffles(seq) ==
    IF seq = <<>> THEN {<<>>}
    ELSE {[i \in 1 .. Len(seq) |-> seq[((i + k - 1) % Len(seq)) + 1]] :
             k \in 0 .. (Len(seq) - 1)}

\* The request arrives: the first query is sent.
TrendingRequest ==
    /\ trending.pc = "idle"
    /\ trending' = [NoTrending EXCEPT !.pc = "loop",
                                      !.issued = <<TrendingQueries[1]>>]
    /\ UNCHANGED notTrending

\* The answer to the query in flight: its first PerQuery movies are
\* collected, or nothing is when the call fails, the answer is unsuccessful
\* or it has no results; then the next query is sent, or the response.
TrendingAnswer ==
    /\ trending.pc = "loop"
    /\ LET i == Len(trending.issued) IN
       \E kind \in {"fail", "unsuccessful", "no results", "own", "shared"} :
         LET all == CASE kind = "own" ->
                          trending.allMovies \o Slice(OwnItems(i), PerQuery)
                      [] kind = "shared" ->
                          trending.allMovies \o Slice(SharedItems(i), PerQuery)
                      [] OTHER -> trending.allMovies
             failed == IF kind = "fail" THEN trending.failed \cup {i}
                       ELSE trending.failed
         IN  IF i < Len(TrendingQueries)
             THEN trending' = [trending EXCEPT
                                 !.issued = Append(@, TrendingQueries[i + 1]),
                                 !.allMovies = all, !.failed = failed]
             ELSE \E shuffled \in Shuffles(UniqueMovies(all, 1)) :
                    trending' = [trending EXCEPT
                                   !.pc = "done", !.allMovies = all,
                                   !.failed = failed, !.status = 200,
                                   !.success = TRUE,
                                   !.items = Slice(shuffled, MaxTrending)]
    /\ UNCHANGED notTrending

\* The request is over.
TrendingDone ==
    /\ trending.pc = "done"
    /\ trending' = NoTrending
    /\ UNCHANGED notTrending

NextTrending == TrendingRequest \/ TrendingAnswer \/ TrendingDone

SpecTrending == Init /\ [][NextTrending]_vars

\* ------------------------------ part_002: the browser's login state
\* checkAuthStatus(): without a stored token nothing is done; with one,
\* /auth/me is fetched.
CheckAuthStatus ==
    /\ auth.check = "idle"
    /\ auth' = IF auth.token = "none"
               THEN [auth EXCEPT !.last = "check without token"]
               ELSE [auth EXCEPT !.check = "await"]
    /\ UNCHANGED notAuth

\* /auth/me settles: response.ok sets currentUser; any other answer, and a
\* rejected fetch, removes the stored token.
CheckAuthAnswer ==
    /\ auth.check = "await"
    /\ \/ \E u \in Users :
            auth' = [auth EXCEPT !.check = "idle", !.currentUser = u,
                                 !.menu = "user", !.last = "check ok"]
       \/ auth' = [auth EXCEPT !.check = "idle", !.token = "none",
                               !.last = "check failed"]
    /\ UNCHANGED notAuth

\* login(email, password) and register(username, email, password): the
\* request is posted.
AuthPost(form) ==
    /\ auth[form] = "idle"
    /\ auth' = [auth EXCEPT ![form] = "await"]
    /\ UNCHANGED notAuth

\* The post settles: data.success stores the token and sets currentUser;
\* an unsuccessful answer and a rejected fetch change neither.
AuthAnswer(form) ==
    /\ auth[form] = "await"
    /\ \/ \E u \in Users :
            auth' = [auth EXCEPT ![form] = "idle", !.token = TokenOf(u),
                                 !.currentUser = u, !.menu = "user",
                                 !.last = form \o " ok"]
       \/ auth' = [auth EXCEPT ![form] = "idle", !.last = form \o " failed"]
    /\ UNCHANGED notAuth

\* logout()
Logout ==
    /\ auth' = [auth EXCEPT !.token = "none", !.currentUser = "null",
                            !.menu = "buttons", !.last = "logout"]
    /\ UNCHANGED notAuth

NextAuth ==
    \/ CheckAuthStatus \/ CheckAuthAnswer \/ Logout
    \/ \E form \in {"login", "register"} : AuthPost(form)
    \/ \E form \in {"login", "register"} : AuthAnswer(form)

SpecAuth == Init /\ [][NextAuth]_vars

\* ------------------------------------- server.js: the cluster master
\* The master starts: numCPUs = os.cpus().length, and the loop forks that
\* many workers.
MasterStart ==
    /\ cluster.cpus = 0
    /\ \E numCPUs \in 1 .. MaxCPUs :
         cluster' = [cluster EXCEPT !.cpus = numCPUs, !.starting = numCPUs,
                                    !.forks = numCPUs]
    /\ UNCHANGED notCluster

\* A forked worker has started and serves.
WorkerOnline ==
    /\ cluster.starting > 0
    /\ cluster' = [cluster EXCEPT !.starting = @ - 1, !.running = @ + 1]
    /\ UNCHANGED notCluster

\* A worker exits, started or not: its `exit` event waits for the master.
WorkerExit ==
    /\ cluster.forks < MaxForks
    /\ \E state \in {"starting", "running"} :
         /\ cluster[state] > 0
         /\ cluster' = [cluster EXCEPT ![state] = @ - 1, !.exits = @ + 1]
    /\ UNCHANGED notCluster

\* A listener on `exit` that forks nothing.
MasterOnExitIdle ==
    /\ cluster.exits > 0
    /\ cluster' = [cluster EXCEPT !.exits = @ - 1, !.handled = @ + 1]
    /\ UNCHANGED notCluster
\* cluster.on('exit'): cluster.fork().
MasterOnExit ==
    /\ cluster.exits > 0
    /\ cluster' = [cluster EXCEPT !.exits = @ - 1, !.handled = @ + 1,
                                  !.starting = @ + 1, !.forks = @ + 1]
    /\ UNCHANGED notCluster

NextCluster == MasterStart \/ WorkerOnline \/ WorkerExit \/ MasterOnExit

SpecCluster == Init /\ [][NextCluster]_vars

\* -------------------------------- part_003: tryStreamingMethods
\* resolve() or reject() of the promise of attempt m: a settled promise
\* stays as it is.
Settle(p, ms, outcome, reason) ==
    [p EXCEPT
       !.promise = [m \in DOMAIN @ |->
                      IF m \in ms /\ @[m] = "pending" THEN outcome ELSE @[m]],
       !.why = [m \in DOMAIN @ |->
                  IF m \in ms /\ p.promise[m] = "pending" THEN reason
                  ELSE @[m]]]

\* The source is put into the video element and load() is called; the
\* `error` and `loadeddata` listeners of attempt m are added once, and its
\* 15 s timer is set.
Attempt(p, m) ==
    [p EXCEPT !.readyState = 0, !.loaded = FALSE,
              !.onError = @ \cup {m}, !.onLoaded = @ \cup {m},
              !.timers = @ \cup {m}]

\* tryStreamingMethods(movieId) is called: method 1 is awaited.
TryStreamingMethods ==
    /\ player.pc \in {"idle", "returned", "thrown"}
    /\ player.timers = {}
    /\ player' = Attempt([NoPlayer EXCEPT !.pc = "method 1",
                                          !.attempts = <<"stream">>,
                                          !.promise.stream = "pending"],
                         "stream")
    /\ UNCHANGED notPlayer

\* The video element loads: readyState grows, and `loadeddata` runs its
\* listeners the first time it reaches HAVE_CURRENT_DATA; or the element
\* fires `error` and runs those listeners.
VideoEvent ==
    /\ player.pc # "idle"
    /\ \/ /\ player.readyState < 4
          /\ LET p == [player EXCEPT !.readyState = @ + 1] IN
             player' = IF p.readyState >= HAVE_CURRENT_DATA /\ ~p.loaded
                       THEN Settle([p EXCEPT !.loaded = TRUE,
                                             !.onLoaded = {}],
                                   p.onLoaded, "resolved", "loadeddata")
                       ELSE p
       \/ /\ player.onError # {}
          /\ player' = Settle([player EXCEPT !.onError = {}],
                              player.onError, "rejected", "error")
    /\ UNCHANGED notPlayer

\* A timer whose callback does nothing.
TimerIdle(m) ==
    /\ m \in player.timers
    /\ player' = [player EXCEPT !.timers = @ \ {m}]
    /\ UNCHANGED notPlayer
\* The 15 s timer of attempt m fires: reject when readyState < 2.
TimerFires(m) ==
    /\ m \in player.timers
    /\ LET p == [player EXCEPT !.timers = @ \ {m}] IN
       player' = IF p.readyState < HAVE_CURRENT_DATA
                 THEN Settle(p, {m}, "rejected", "timeout")
                 ELSE p
    /\ UNCHANGED notPlayer

\* The awaited promise has settled: return when it resolved; after the
\* rejection of method 1 start method 2 with its fetch of the direct URL,
\* after the rejection of method 2 throw 'All streaming methods failed'.
Continue ==
    /\ \/ /\ player.pc = "method 1"
          /\ \/ /\ player.promise.stream = "resolved"
                /\ player' = [player EXCEPT !.pc = "returned"]
             \/ /\ player.promise.stream = "rejected"
                /\ player' = [player EXCEPT
                                !.pc = "fetch",
                                !.attempts = Append(@, "direct"),
                                !.promise.direct = "pending"]
       \/ /\ player.pc = "method 2"
          /\ \/ /\ player.promise.direct = "resolved"
                /\ player' = [player EXCEPT !.pc = "returned"]
             \/ /\ player.promise.direct = "rejected"
                /\ player' = [player EXCEPT !.pc = "thrown"]
    /\ UNCHANGED notPlayer

\* The fetch of /api/video settles: a direct URL is loaded, or the attempt
\* is rejected when the fetch throws or data.success is false.
FetchAnswer ==
    /\ player.pc = "fetch"
    /\ \/ player' = Attempt([player EXCEPT !.pc = "method 2"], "direct")
       \/ player' = Settle([player EXCEPT !.pc = "method 2"], {"direct"},
                           "rejected", "no direct URL")
    /\ UNCHANGED notPlayer

NextPlayer ==
    \/ TryStreamingMethods \/ VideoEvent \/ Continue \/ FetchAnswer
    \/ \E m \in {"stream", "direct"} : TimerFires(m)

\* Timers fire, awaits resume and the fetch settles; the video element
\* need not make progress.
SpecPlayer ==
    /\ Init /\ [][NextPlayer]_vars
    /\ WF_vars(Continue) /\ WF_vars(FetchAnswer)
    /\ \A m \in {"stream", "direct"} : WF_vars(TimerFires(m))

\* ---------------------------------------------------------- properties
StreamHandlers == {Stream000, Stream002, Stream003}
ErrorStatus == 500..599
Numeric(x) == ~x.nan

\* C1: a stream request with Range `bytes=s-[e]`, a probe that reports the
\* size T with 0 <= s <= e < T (e = T-1 when the header has no end), and a
\* successful ranged fetch: the status is 206, Content-Length is e-s+1 and
\* Content-Range is `bytes s-e/T`.
C1_RangeResponse ==
    ( /\ handler \in StreamHandlers
      /\ up.probe = "ok"
      /\ up.media = "ok" )
    => \A T \in 0..MaxFileSize : up.probeLength = {Decimal(T)} =>
       \A s \in 0..MaxFileSize, e \in 0..MaxFileSize :
        ( /\ s <= e /\ e < T
          /\ \/ range = {<<"bytes=">> \o Decimal(s) \o <<"-">> \o Decimal(e)}
             \/ range = {<<"bytes=">> \o Decimal(s) \o <<"-">>} /\ e = T - 1 )
        => /\ res.sentStatus = 206
           /\ res.contentLength = {Decimal(e - s + 1)}
           /\ res.contentRange =
                {<<"bytes ">> \o Decimal(s) \o <<"-">> \o Decimal(e)
                    \o <<"/">> \o Decimal(T)}

\* C1 witness: `bytes=1-` on a 3-byte file, probe and ranged fetch done.
C1_Witness ==
    /\ handler \in StreamHandlers
    /\ range = {<<"bytes=", "1", "-">>}
    /\ up.probeLength = {<<"3">>}
    /\ up.media = "ok"
    /\ res.sentStatus = 206
    /\ res.contentLength = {<<"2">>}

\* C2: a ranged stream request whose start s is >= the probed size T is
\* answered 416 with Content-Range `bytes */T`, the response is ended and no
\* GET goes to the media URL: only the sources call and the probe are made.
C2_UnsatisfiableStart ==
    ( /\ handler \in StreamHandlers
      /\ up.probe = "ok"
      /\ Numeric(start) /\ Numeric(fileSize) /\ start.n >= fileSize.n )
    => /\ res.sentStatus = 416
       /\ res.contentRange = {<<"bytes ", "*", "/">> \o Decimal(fileSize.n)}
       /\ res.finished
       /\ calls.media = 0 /\ calls.sources = 1 /\ calls.probe = 1

\* C3: a ranged stream request whose start is below the size T and whose
\* explicit end is >= T is answered 416 with Content-Range `bytes */T`, not
\* 206.
C3_EndBeyondSize ==
    ( /\ handler \in StreamHandlers
      /\ up.probe = "ok"
      /\ Numeric(start) /\ Numeric(end) /\ Numeric(fileSize)
      /\ start.n < fileSize.n /\ end.n >= fileSize.n )
    => /\ res.sentStatus = 416
       /\ res.contentRange = {<<"bytes ", "*", "/">> \o Decimal(fileSize.n)}

\* C4: whenever a 206 status has been written, the announced range is made
\* of integers with 0 <= start <= end < totalSize; a header that violates
\* this never gets a 206.
C4_RangeInvariant ==
    res.sentStatus = 206 =>
        /\ Numeric(start) /\ Numeric(end) /\ Numeric(fileSize)
        /\ 0 <= start.n /\ start.n <= end.n /\ end.n < fileSize.n

\* C5: on a non-empty source list the resolver selects the first entry whose
\* quality equals the requested label exactly, and the first entry of the
\* list when no entry does; it selects no other entry and does not fail.
C5_Selection ==
    (up.sources = "ok" /\ Len(sources) >= 1) =>
        /\ selected \in 1..Len(sources)
        /\ IF \E i \in 1..Len(sources) : sources[i] = quality
           THEN /\ sources[selected] = quality
                /\ \A j \in 1..(selected - 1) : sources[j] # quality
           ELSE selected = 1

\* C5 witness: the requested label is listed twice and the first is chosen.
C5_Witness ==
    /\ sources = <<"720p", "720p">>
    /\ quality = "720p"
    /\ selected = 1
    /\ pc # "sources"

\* C6: when the sources answer reports no success or lists nothing, the
\* stream and download handlers answer 404 with a JSON error; no streaming
\* header and no body byte is written and no probe or media request is made.
C6_NotFound ==
    ( /\ handler \in StreamHandlers \cup {Download000}
      /\ \/ up.sources = "unsuccessful"
         \/ up.sources = "ok" /\ sources = <<>> )
    => /\ res.sentStatus = 404
       /\ res.body.kind = "json" /\ res.body.error # ""
       /\ res.finished
       /\ res.acceptRanges = {} /\ res.contentRange = {}
       /\ res.contentDisposition = {}
       /\ \A t \in res.contentType : t.mime = "application/json"
       /\ res.bytes = 0
       /\ calls.probe = 0 /\ calls.media = 0

\* C6 witness: a download whose sources answer lists nothing.
C6_Witness ==
    /\ handler = Download000
    /\ up.sources = "ok" /\ sources = <<>>
    /\ res.sentStatus = 404

\* C7: a sources call that errors or times out is reported as a 5xx JSON
\* error, never as 404.
C7_SourcesUnavailable ==
    up.sources = "fail" =>
        /\ res.sentStatus \in ErrorStatus
        /\ res.body.kind = "json"

\* C8: when the probe of a ranged stream request fails, the handler falls
\* back to a full relay: it issues an unranged GET and answers 200, not an
\* error status.
C8_ProbeFallback ==
    (handler \in StreamHandlers /\ up.probe = "fail") =>
        /\ calls.media = 1 /\ mediaRange = {}
        /\ res.statusCode = 200
        /\ hstate # "rejected"

\* C9: the 206 status and its headers are written only after the ranged GET
\* has returned its response stream.
C9_HeadAfterFetch ==
    res.sentStatus = 206 => up.media = "ok"

\* C10: when the media fetch fails before any body byte is relayed, the
\* client receives one complete 5xx response with a JSON error body; the
\* handler never writes a status or body onto a response whose headers are
\* already sent.
C10_FetchFailure ==
    (up.media = "fail" /\ res.bytes = 0) =>
        /\ res.finished
        /\ res.sentStatus \in ErrorStatus
        /\ res.body.kind = "json"
        /\ hstate # "rejected"

\* The stream handlers, the one without range support included.
AllStreams == StreamHandlers \cup {Stream001}

\* C16: within one stream request the handler issues at most one sources
\* call, at most one probe and at most one media GET, and a call that
\* failed is the only one of its kind: it is not issued again.
C16_SingleAttempt ==
    handler \in AllStreams =>
        /\ calls.sources <= 1 /\ calls.probe <= 1 /\ calls.media <= 1
        /\ up.sources = "fail" => calls.sources = 1
        /\ up.probe = "fail" => calls.probe = 1
        /\ up.media = "fail" => calls.media = 1
\* A media GET that failed after one sources call and one probe.
C16_Witness ==
    /\ handler \in AllStreams
    /\ pc = "done"
    /\ up.media = "fail"
    /\ calls.sources = 1 /\ calls.probe = 1 /\ calls.media = 1

\* C17: in the router the subscription check settles before any upstream
\* call is issued and before a streaming header is set; when it reports no
\* active subscription, or its lookup throws, the request ends with a 403
\* JSON answer, without a sources call, a probe or a media GET and without
\* a streaming header.
C17_SubscriptionGate ==
    handler = Stream003 =>
        /\ (calls # NoCalls \/ res.acceptRanges # {} \/ res.contentRange # {})
              => up.subscription = "active"
        /\ up.subscription \in {"inactive", "error"} =>
              /\ pc = "done"
              /\ res.sentStatus = 403
              /\ res.body.kind = "json"
              /\ res.contentType
                   = {[mime |-> "application/json", charset |-> "utf-8"]}
              /\ res.finished
              /\ calls = NoCalls
              /\ res.acceptRanges = {} /\ res.contentRange = {}
\* The subscription lookup threw and the request was answered.
C17_Witness ==
    /\ handler = Stream003
    /\ up.subscription = "error"
    /\ res.sentStatus = 403

\* C18: a ranged response carries the content type the probe reported for
\* the media, not a fixed one.
C18_ProbedContentType ==
    ( /\ handler \in StreamHandlers
      /\ res.sentStatus = 206
      /\ up.probe = "ok" /\ up.probeType # {} )
    => res.contentType = {[mime |-> The(up.probeType), charset |-> ""]}

\* C13: while a stream request waits for the probe, the ranged GET or the
\* unranged GET, that call carries an explicit timeout, so an upstream that
\* never answers cannot make the request wait forever.
C13_Timeouts ==
    (handler \in AllStreams /\ pc \in {"probe", "fetch"})
    => timeout > NoTimeout

\* The handlers that relay the unranged body once their media GET succeeded.
Downloads == {Download000, Download003, DownloadSrv}
FullRelay ==
    /\ handler \in AllStreams \cup Downloads
    /\ up.media = "ok"
    /\ mediaRange = {}

\* C14: on a full relay (a stream request without Range, or a download)
\* the status is 200 and the response has a Content-Length exactly when the
\* upstream media answer had one, with the same value; the catalog's
\* declared size is never used.
C14_FullRelayLength ==
    FullRelay =>
        /\ res.statusCode = 200
        /\ res.headersSent => res.sentStatus = 200
        /\ res.contentLength = up.mediaLength

\* C15: a download resolves its source by the selection rule of the stream
\* handlers and relays the full body with Content-Disposition: attachment;
\* it makes no probe, never answers 206 and never sends the client to the
\* upstream URL.
C15_DownloadRelay ==
    handler \in Downloads =>
        /\ up.sources = "ok" => selected = SelectSource(sources, quality)
        /\ calls.probe = 0
        /\ res.sentStatus # 206
        /\ res.location = {} /\ res.sentStatus \notin 300..399
        /\ up.media = "ok" =>
              /\ res.contentDisposition = {"attachment"}
              /\ res.statusCode = 200
              /\ relay.piped

\* C11: once the upstream media stream has failed after the first chunk
\* was written downstream, the response is ended (the connection is not left
\* open) and its status line is the one already sent.
C11_UpstreamErrorEnds ==
    (relay.upstream = "errored" /\ res.bytes > 0)
    => /\ res.finished
       /\ res.sentStatus \in {200, 206}

\* C12: once the client has disconnected from an unfinished relay, the
\* upstream media stream is destroyed: it is neither left open nor read to
\* its end.
C12_DisconnectCancels ==
    relay.client = "closed" => relay.upstream = "destroyed"

\* Chunks the relay has read from upstream and the client has not taken.
Unaccepted == relay.emitted - (Len(relay.written) - relay.pending)

\* C19: while the client is connected, the chunks written downstream are
\* the chunks read from upstream so far, in order, none written twice, left
\* out or altered; when the relay has completed they are the whole body.
C19_VerbatimRelay ==
    relay.client = "open" =>
        /\ relay.written = [i \in 1..Len(relay.written) |-> i]
        /\ Len(relay.written) = relay.emitted
        /\ Len(relay.written) = res.bytes
        /\ relay.upstream = "ended" => res.finished

\* C20: while the client is connected, the chunks read from upstream and
\* not yet taken by the client stay within the response's buffer bound, in
\* the handlers with a 'data' listener of their own as well.
C20_BackPressure ==
    relay.client = "open" => Unaccepted <= HighWater

\* C21: a range request of part_000's stream handler that follows a request
\* with the same quality and Range header, to which the upstream gave the
\* same answers and the same body, ends with the same status, the same
\* Content-Range and Content-Length and the same body.
C21_Idempotent ==
    ( /\ handler = Stream000 /\ pc = "done"
      /\ Truthy(range)
      /\ prev.set
      /\ prev.handler = handler /\ prev.quality = quality
      /\ prev.range = range
      /\ prev.sources = sources /\ prev.up = up
      /\ prev.emitted = relay.emitted )
    => /\ res.sentStatus = prev.res.sentStatus
       /\ res.contentRange = prev.res.contentRange
       /\ res.contentLength = prev.res.contentLength
       /\ res.contentType = prev.res.contentType
       /\ res.body = prev.res.body
       /\ res.bytes = prev.res.bytes
       /\ relay.written = prev.written
\* `bytes=1-2` on a 3-byte file served twice in a row, two chunks each time.
C21_Witness ==
    /\ handler = Stream000 /\ pc = "done"
    /\ range = {<<"bytes=", "1", "-", "2">>}
    /\ prev.set /\ prev.range = range /\ prev.up = up
    /\ up.probeLength = {<<"3">>}
    /\ res.sentStatus = 206
    /\ prev.emitted = 2 /\ relay.written = <<1, 2>>
    /\ res.finished

\* C23: on the range path the Range header of the media GET names the
\* start and end that the response's Content-Range announces: the header is
\* `bytes=` followed by X and Content-Range is `bytes ` followed by X, `/`
\* and the size.
C23_SameRange ==
    (handler \in StreamHandlers /\ mediaRange # {})
    => /\ res.contentRange # {}
       /\ LET asked == The(mediaRange)
              told == The(res.contentRange)
          IN  /\ asked[1] = "bytes=" /\ told[1] = "bytes "
              /\ told = <<"bytes ">> \o Tail(asked) \o <<"/">>
                            \o JsString(fileSize)
\* `bytes=1-2` asked upstream and `bytes 1-2/3` announced downstream.
C23_Witness ==
    /\ handler \in StreamHandlers
    /\ mediaRange = {<<"bytes=", "1", "-", "2">>}
    /\ res.contentRange = {<<"bytes ", "1", "-", "2", "/", "3">>}
    /\ res.sentStatus = 206

\* C24: a failure inside the logging hook leaves the client's response as
\* it would be without it.  In the router: a failed probe is answered 416 by
\* the range handler's catch block, a failed media GET or sources problem is
\* answered as well, and a relay whose upstream has ended has ended the
\* response.
C24_LoggingFireAndForget ==
    handler = Stream003 =>
        /\ pc = "done" => res.finished /\ res.sentStatus # 0
        /\ up.probe = "fail" => res.sentStatus = 416
        /\ hstate # "rejected"

\* C25: a search whose query has a cache entry younger than CACHE_DURATION
\* is answered 200 with the cached data, makes no upstream call and leaves
\* the cache as it was; a search whose query has no entry, or an entry at
\* least CACHE_DURATION old, makes exactly one upstream call, and when that
\* call succeeds the entry of the query becomes the new data with the
\* timestamp of that moment.
C25_CacheHitAndExpiry ==
    [][\A t \in SearchTasks :
        /\ (search[t].pc = "idle" /\ search'[t].pc # "idle") =>
             LET q == search'[t].query
                 e == cache[q]
             IN  IF e.present /\ clock - e.timestamp < CACHE_DURATION
                 THEN /\ search'[t].pc = "done"
                      /\ search'[t].status = 200
                      /\ search'[t].data = e.data
                      /\ search'[t].calls = 0
                      /\ cache' = cache
                 ELSE /\ search'[t].pc = "await"
                      /\ search'[t].calls = 1
                      /\ cache' = cache
        /\ (search[t].pc = "await" /\ search'[t].pc = "done") =>
             /\ search'[t].calls = 1
             /\ search'[t].status = 200 =>
                  cache'[search[t].query] =
                      [present |-> TRUE, timestamp |-> clock,
                       data |-> search'[t].data]
       ]_vars

\* An entry that had reached CACHE_DURATION was replaced by a second call
\* while the other task was answered from the cache.
C25_Witness ==
    \E t, u \in SearchTasks :
        /\ search[t].pc = "done" /\ search[t].calls = 1
        /\ search[t].status = 200
        /\ clock >= CACHE_DURATION
        /\ cache[search[t].query].timestamp = clock
        /\ search[u].pc = "done" /\ search[u].cached
        /\ search[u].query = search[t].query

\* C26: a search whose upstream call fails answers 500 and adds, removes or
\* changes no cache entry, and every cache entry holds, under its own query,
\* a body the upstream answered for that query.
C26_FailureKeepsCache ==
    [][/\ \A t \in SearchTasks :
            (search[t].pc = "await" /\ search'[t].pc = "done"
                /\ search'[t].status # 200) =>
                /\ search'[t].status = 500
                /\ search'[t].data = NoData
                /\ cache' = cache
       /\ \A q \in Queries :
            cache'[q].present =>
                \E v \in Versions : cache'[q].data = SearchData(q, v)
      ]_vars

\* A search failed while the entry of its query was in the cache.
C26_Witness ==
    \E t \in SearchTasks :
        /\ search[t].pc = "done" /\ search[t].status = 500
        /\ cache[search[t].query].present
        /\ clock - cache[search[t].query].timestamp >= CACHE_DURATION

C27_TrendingTolerant ==
    /\ \A i \in 1 .. Len(trending.issued) :
          trending.issued[i] = TrendingQueries[i]
    /\ trending.pc = "done" =>
          /\ trending.issued = TrendingQueries
          /\ trending.status = 200 /\ trending.success
          /\ Len(trending.items) <= 20
          /\ \A i, j \in 1 .. Len(trending.items) :
                i # j => trending.items[i].subjectId
                            # trending.items[j].subjectId

\* Two queries failed, one found the shared movies and two their own.
C27_Witness ==
    /\ trending.pc = "done"
    /\ trending.failed = {1, 3}
    /\ Len(trending.allMovies) = 14
    /\ Len(trending.items) = 12

C30_WorkerCount ==
    cluster.cpus > 0 =>
        /\ cluster.forks = cluster.cpus + cluster.handled
        /\ cluster.starting + cluster.running + cluster.exits = cluster.cpus
        /\ cluster.exits = 0 =>
              cluster.starting + cluster.running = cluster.cpus

\* Both workers of a two-CPU machine have exited and have been replaced,
\* and the replacements serve.
C30_Witness ==
    /\ cluster.cpus = 2 /\ cluster.handled = 2
    /\ cluster.exits = 0 /\ cluster.running = 2

====
